---- MODULE Spec2Model ----
(***************************************************************************)
(* Model of search_main.py: the CLI entry point, run() with its row loop,  *)
(* the signal handler and the cleanup block.                               *)
(*                                                                         *)
(* Text is modelled as a sequence of one-character strings, so that        *)
(* str.strip(), the `in` substring test and the CSV cell conversions are   *)
(* computed, not assumed.                                                  *)
(***************************************************************************)
EXTENDS Integers, Sequences, FiniteSets, TLC

\* ------------------------------------------------------------------ bounds
\* Largest number of data rows of an input table.
MaxRows == 2

\* ------------------------------------------------------------------- text
EMPTY == << >>
SPACE == <<" ">>
TRUE_STR  == <<"T", "r", "u", "e">>
FALSE_STR == <<"F", "a", "l", "s", "e">>
NAN_STR   == <<"n", "a", "n">>
NA_TEXT   == <<"N", "A">>
OLD_TEXT  == <<"o", "l", "d">>
ACME      == <<"a", "b">>
SEVEN     == <<"7">>

\* The phrase the results label is compared with.
PRIME_AWARD_RESULTS ==
    <<"P","r","i","m","e"," ","A","w","a","r","d"," ","R","e","s","u","l","t","s">>

\* Characters str.strip() removes (the one whitespace character the inputs use).
Whitespace == {" "}

RECURSIVE LStrip(_)
LStrip(s) ==
    IF s = EMPTY THEN EMPTY
    ELSE IF Head(s) \in Whitespace THEN LStrip(Tail(s)) ELSE s

RECURSIVE RStrip(_)
RStrip(s) ==
    IF s = EMPTY THEN EMPTY
    ELSE IF s[Len(s)] \in Whitespace THEN RStrip(SubSeq(s, 1, Len(s) - 1)) ELSE s

\* str.strip()
Strip(s) == RStrip(LStrip(s))

\* Python's `needle in hay` on strings.
Contains(needle, hay) ==
    \E i \in 0..(Len(hay) - Len(needle)) :
        SubSeq(hay, i + 1, i + Len(needle)) = needle

\* ------------------------------------------------------------ table cells
\* A cell of the in-memory table: a string, or the missing value NaN.
NaN == [isna |-> TRUE, s |-> EMPTY]
StrCell(s) == [isna |-> FALSE, s |-> s]

\* Texts read_csv turns into NaN (a subset of its default list that the
\* inputs below use: the empty field and NA).
NAValues == {EMPTY, NA_TEXT}

\* pd.read_csv(..., dtype=str) on one field.
ReadCell(text) == IF text \in NAValues THEN NaN ELSE StrCell(text)

\* DataFrame.to_csv on one cell: NaN is written as the empty field.
WriteCell(c) == IF c.isna THEN EMPTY ELSE c.s

\* Truthiness of a cell value: NaN is a float and is truthy; a string is truthy
\* unless empty.
Truthy(c) == c.isna \/ c.s # EMPTY

\* str(x) of a cell value.
PyStr(c) == IF c.isna THEN NAN_STR ELSE c.s

\* company = str(row.get(column) or "").strip()
CompanyOf(c) == Strip(PyStr(IF Truthy(c) THEN c ELSE StrCell(EMPTY)))

\* ------------------------------------------------------------ the inputs
COLUMN == "company_name"
STATUS == "status"
EXTRA  == "extra"

\* The rows an input file is built from, as CSV text.
RowKinds ==
    { [company_name |-> EMPTY, extra |-> SEVEN,   status |-> EMPTY],
      [company_name |-> SPACE, extra |-> ACME,    status |-> TRUE_STR],
      [company_name |-> ACME,  extra |-> NA_TEXT, status |-> OLD_TEXT] }

\* The column sets of an input file: with or without the required column,
\* with or without a status column.
ColumnSets ==
    { {COLUMN, EXTRA}, {COLUMN, EXTRA, STATUS}, {EXTRA}, {EXTRA, STATUS} }

Restrict(r, cols) == [c \in cols |-> r[c]]

SeqsUpTo(S, n) == UNION { [1..k -> S] : k \in 1..n }

InputFiles ==
    { [columns |-> cols, rows |-> [i \in DOMAIN rs |-> Restrict(rs[i], cols)]] :
        cols \in ColumnSets, rs \in SeqsUpTo(RowKinds, MaxRows) }

\* What page.locator(RESULT_LABEL_SELECTOR).inner_text() can return.
LabelTexts ==
    { PRIME_AWARD_RESULTS,
      SPACE \o PRIME_AWARD_RESULTS \o SPACE,
      PRIME_AWARD_RESULTS \o <<" ", "(", "3", ")">>,
      <<"N", "o">> }

\* ---------------------------------------------------------------- loading
\* pd.read_csv(input_csv, dtype=str): every field through ReadCell.
read_csv(f) ==
    [columns |-> f.columns,
     rows    |-> [i \in DOMAIN f.rows |->
                    [c \in f.columns |-> ReadCell(f.rows[i][c])]]]

\* if "status" not in df.columns: df["status"] = ""
EnsureStatus(t) ==
    IF STATUS \in t.columns THEN t
    ELSE [columns |-> t.columns \cup {STATUS},
          rows    |-> [i \in DOMAIN t.rows |->
                         [c \in t.columns \cup {STATUS} |->
                            IF c = STATUS THEN StrCell(EMPTY) ELSE t.rows[i][c]]]]

\* df.to_csv(output_csv, index=False): the whole table, every cell through
\* WriteCell, rows in table order.
to_csv(t) ==
    [columns |-> t.columns,
     rows    |-> [i \in DOMAIN t.rows |->
                    [c \in t.columns |-> WriteCell(t.rows[i][c])]]]

\* The assignment storing a missing value instead of the text.
SetStatus_Missing(t, i, v) ==
    [t EXCEPT !.rows[i][STATUS] = NaN]

\* df.loc[idx, "status"] = v
SetStatus(t, i, v) ==
    [t EXCEPT !.rows[i][STATUS] = StrCell(v)]

NoTable == [columns |-> {}, rows |-> << >>]
NoFile  == [columns |-> {}, rows |-> << >>]

\* ------------------------------------------------------------------ state
VARIABLES
    pc,            \* where the program is (see the actions)
    input,         \* the input path: whether it exists, and the CSV it holds
    df,            \* the in-memory table
    out,           \* the file at the output path (NoFile until first written)
    saved,         \* outcome of the latest to_csv call: "none", "ok", "failed"
    swallowed,     \* rows whose write after classification failed and was passed over
    interrupted,   \* the module-level interrupt flag
    handlers,      \* whether _signal_handler is registered
    intRow,        \* the row in progress when the flag was first set (0: none)
    idx,           \* the loop variable: index of the row fetched by the for loop
    done,          \* number of rows that reached one of their save points
    used,          \* whether the browser page was used for row idx
    label,         \* what the classify step observed for row idx
    nav,           \* outcomes of the page.goto calls made for row idx, in order
    submit,        \* what the submit step of row idx met: "none", "absent",
                   \* "found", "clicked", "unclickable", "error"
    status_value,  \* the local status_value of row idx
    slept,         \* whether time.sleep(0.6) ran since row idx was fetched
    browser,       \* "none", "open", "closed"
    context,       \* "none", "open", "closed"
    page,          \* whether context.new_page() returned
    launches,      \* number of successful launch() calls
    closeTried,    \* which close() calls the cleanup block has made
    exc,           \* the exception propagating out of run(), or "none"
    exitCode,      \* the process exit code, -1 while running
    runCalled      \* whether run() was called

vars == << pc, input, df, out, saved, swallowed, interrupted, handlers, intRow,
           idx, done, used, label, nav, submit, status_value, slept, browser,
           context, page, launches, closeTried, exc, exitCode, runCalled >>

tableVars   == << df, out, saved, swallowed >>
signalVars  == << interrupted, handlers, intRow >>
rowVars     == << idx, done, used, label, nav, submit, status_value, slept >>
sessionVars == << browser, context, page, launches, closeTried >>
procVars    == << exc, exitCode, runCalled >>

NoLabel == [seen |-> FALSE, readable |-> FALSE, text |-> EMPTY]

\* The positions inside one iteration of the row loop.
RowPcs ==
    { "company", "goto", "goto_fallback", "wait_input", "fill", "fb_click",
      "fb_focus", "select_all", "select_all_meta", "type", "enter",
      "wait_submit", "click_submit", "wait_label", "read_label",
      "wait_no_results", "save", "sleep" }

NRows == Len(df.rows)

Init ==
    /\ pc = "main"
    /\ input \in [exists : BOOLEAN, file : InputFiles]
    /\ df = NoTable
    /\ out = NoFile
    /\ saved = "none"
    /\ swallowed = {}
    /\ interrupted = FALSE
    /\ handlers = FALSE
    /\ intRow = 0
    /\ idx = 0
    /\ done = 0
    /\ used = FALSE
    /\ label = NoLabel
    /\ nav = << >>
    /\ submit = "none"
    /\ status_value = EMPTY
    /\ slept = FALSE
    /\ browser = "none"
    /\ context = "none"
    /\ page = FALSE
    /\ launches = 0
    /\ closeTried = {}
    /\ exc = "none"
    /\ exitCode = -1
    /\ runCalled = FALSE

\* ------------------------------------------------------ the entry point
\* __main__: a missing input path exits with code 1; otherwise run() is called.
Main ==
    /\ pc = "main"
    /\ IF ~input.exists
         THEN /\ pc' = "exit"
              /\ exitCode' = 1
              /\ UNCHANGED runCalled
         ELSE /\ pc' = "load"
              /\ runCalled' = TRUE
              /\ UNCHANGED exitCode
    /\ UNCHANGED << input, tableVars, signalVars, rowVars, sessionVars, exc >>

\* Load without the check of the required column.
Load_NoColumnCheck ==
    /\ pc = "load"
    /\ df' = EnsureStatus(read_csv(input.file))
    /\ pc' = "signal"
    /\ UNCHANGED << input, out, saved, swallowed, signalVars, rowVars, sessionVars,
                    procVars >>

\* run(): load the CSV, require the column, ensure the status column.
Load ==
    /\ pc = "load"
    /\ LET t == read_csv(input.file) IN
         IF COLUMN \notin t.columns
           THEN /\ exc' = "RuntimeError"
                /\ pc' = "propagated"
                /\ UNCHANGED df
           ELSE /\ df' = EnsureStatus(t)
                /\ pc' = "signal"
                /\ UNCHANGED exc
    /\ UNCHANGED << input, out, saved, swallowed, signalVars, rowVars, sessionVars,
                    exitCode, runCalled >>

\* signal.signal(SIGINT, ...); signal.signal(SIGTERM, ...)
RegisterSignals ==
    /\ pc = "signal"
    /\ handlers' = TRUE
    /\ pc' = "launch"
    /\ UNCHANGED << input, tableVars, interrupted, intRow, rowVars, sessionVars,
                    procVars >>

\* _signal_handler: sets the flag, whatever run() is doing.
SignalHandler ==
    /\ handlers
    /\ pc # "exit"
    /\ interrupted' = TRUE
    /\ intRow' = IF interrupted THEN intRow
                 ELSE IF pc \in RowPcs THEN idx ELSE 0
    /\ UNCHANGED << pc, input, tableVars, handlers, rowVars, sessionVars,
                    procVars >>

\* ------------------------------------------------- the browser session
\* browser_launcher.launch(): outside the try block.
Launch ==
    /\ pc = "launch"
    /\ \E ok \in BOOLEAN :
         IF ok
           THEN /\ browser' = "open"
                /\ launches' = launches + 1
                /\ pc' = "new_context"
                /\ UNCHANGED exc
           ELSE /\ exc' = "launch"
                /\ pc' = "propagated"
                /\ UNCHANGED << browser, launches >>
    /\ UNCHANGED << input, tableVars, signalVars, rowVars, context, page,
                    closeTried, exitCode, runCalled >>

\* browser.new_context(): outside the try block.
NewContext ==
    /\ pc = "new_context"
    /\ \E ok \in BOOLEAN :
         IF ok
           THEN /\ context' = "open"
                /\ pc' = "new_page"
                /\ UNCHANGED exc
           ELSE /\ exc' = "new_context"
                /\ pc' = "propagated"
                /\ UNCHANGED context
    /\ UNCHANGED << input, tableVars, signalVars, rowVars, browser, page,
                    launches, closeTried, exitCode, runCalled >>

\* context.new_page(): outside the try block.
NewPage ==
    /\ pc = "new_page"
    /\ \E ok \in BOOLEAN :
         IF ok
           THEN /\ page' = TRUE
                /\ pc' = "loop"
                /\ UNCHANGED exc
           ELSE /\ exc' = "new_page"
                /\ pc' = "propagated"
                /\ UNCHANGED page
    /\ UNCHANGED << input, tableVars, signalVars, rowVars, browser, context,
                    launches, closeTried, exitCode, runCalled >>

\* ---------------------------------------------------------- the row loop
\* An exception that no handler of the row catches leaves the loop for the
\* cleanup block and then propagates out of run().
Raise(e) ==
    /\ exc' = e
    /\ pc' = "close_context"

\* row.get(column): the cell, or None (falsy, so replaced by "") when the
\* row has no such column.
RowGet(row, c) == IF c \in DOMAIN row THEN row[c] ELSE StrCell(EMPTY)

\* The early save points without their write of the table.
MarkFalseAndContinue_NoWrite ==
    /\ df' = SetStatus(df, idx, FALSE_STR)
    /\ done' = done + 1
    /\ pc' = "loop"
    /\ UNCHANGED << out, saved, swallowed, exc >>

\* The three early save points (blank company, navigation error, search box
\* not found): df.loc[idx, "status"] = "False"; df.to_csv(...); continue.
\* The to_csv call is not inside a try: its failure propagates.
\* A failed to_csv leaves the file at the output path as it was.
MarkFalseAndContinue ==
    /\ df' = SetStatus(df, idx, FALSE_STR)
    /\ UNCHANGED swallowed
    /\ \E ok \in BOOLEAN :
         IF ok
           THEN /\ out' = to_csv(df')
                /\ saved' = "ok"
                /\ done' = done + 1
                /\ pc' = "loop"
                /\ UNCHANGED exc
           ELSE /\ saved' = "failed"
                /\ Raise("to_csv")
                /\ UNCHANGED << out, done >>

\* The loop without the check of the interrupt flag.
LoopTop_IgnoresInterrupt ==
    /\ pc = "loop"
    /\ IF idx = NRows
         THEN /\ pc' = "close_context"
              /\ UNCHANGED << idx, used, label, nav, submit, status_value, slept >>
         ELSE /\ idx' = idx + 1
              /\ pc' = "company"
              /\ used' = FALSE
              /\ label' = NoLabel
              /\ nav' = << >>
              /\ submit' = "none"
              /\ status_value' = EMPTY
              /\ slept' = FALSE
    /\ UNCHANGED << input, tableVars, signalVars, done, sessionVars, procVars >>

\* The loop resuming a previous run: a row that already has a status is
\* skipped.
LoopTop_SkipsRowsWithStatus ==
    /\ pc = "loop"
    /\ IF idx = NRows
         THEN /\ pc' = "close_context"
              /\ UNCHANGED << idx, used, label, nav, submit, status_value, slept >>
         ELSE /\ idx' = idx + 1
              /\ IF interrupted
                   THEN /\ pc' = "close_context"
                        /\ UNCHANGED << used, label, nav, submit, status_value,
                                        slept >>
                   ELSE /\ pc' = IF WriteCell(df.rows[idx + 1][STATUS]) # EMPTY
                                   THEN "loop" ELSE "company"
                        /\ used' = FALSE
                        /\ label' = NoLabel
                        /\ nav' = << >>
                        /\ submit' = "none"
                        /\ status_value' = EMPTY
                        /\ slept' = FALSE
    /\ UNCHANGED << input, tableVars, signalVars, done, sessionVars, procVars >>

\* for idx, row in df.iterrows(): if interrupted: break
LoopTop ==
    /\ pc = "loop"
    /\ IF idx = NRows
         THEN /\ pc' = "close_context"
              /\ UNCHANGED << idx, used, label, nav, submit, status_value, slept >>
         ELSE /\ idx' = idx + 1
              /\ IF interrupted
                   THEN /\ pc' = "close_context"
                        /\ UNCHANGED << used, label, nav, submit, status_value, slept >>
                   ELSE /\ pc' = "company"
                        /\ used' = FALSE
                        /\ label' = NoLabel
                        /\ nav' = << >>
                        /\ submit' = "none"
                        /\ status_value' = EMPTY
                        /\ slept' = FALSE
    /\ UNCHANGED << input, tableVars, signalVars, done, sessionVars, procVars >>

\* company = str(row.get(column) or "").strip(); if not company: ...
CheckCompany ==
    /\ pc = "company"
    /\ IF CompanyOf(RowGet(df.rows[idx], COLUMN)) = EMPTY
         THEN MarkFalseAndContinue
         ELSE /\ pc' = "goto"
              /\ UNCHANGED << tableVars, done, exc >>
    /\ UNCHANGED << input, signalVars, idx, used, label, nav, submit, status_value, slept,
                    sessionVars, exitCode, runCalled >>

\* The first load with every failure, not only the timeout, going on to the
\* fallback load.
Goto_AnyFailureFallsBack ==
    /\ pc = "goto"
    /\ used' = TRUE
    /\ \E r \in {"ok", "timeout", "error"} :
         /\ nav' = Append(nav, r)
         /\ pc' = IF r = "ok" THEN "wait_input" ELSE "goto_fallback"
    /\ UNCHANGED << input, tableVars, signalVars, idx, done, label, submit,
                    status_value, slept, sessionVars, procVars >>

\* page.goto(URL, wait_until="networkidle")
Goto ==
    /\ pc = "goto"
    /\ used' = TRUE
    /\ \E r \in {"ok", "timeout", "error"} :
         /\ nav' = Append(nav, r)
         /\ CASE r = "ok"      -> /\ pc' = "wait_input"
                                  /\ UNCHANGED << tableVars, done, exc >>
              [] r = "timeout" -> /\ pc' = "goto_fallback"
                                  /\ UNCHANGED << tableVars, done, exc >>
              [] r = "error"   -> MarkFalseAndContinue
    /\ UNCHANGED << input, signalVars, idx, label, submit, status_value, slept,
                    sessionVars, exitCode, runCalled >>

\* The fallback page.goto(URL, wait_until="domcontentloaded") runs inside the
\* except clause: nothing catches what it raises.
GotoFallback ==
    /\ pc = "goto_fallback"
    /\ \E ok \in BOOLEAN :
         /\ nav' = Append(nav, IF ok THEN "ok" ELSE "error")
         /\ IF ok THEN pc' = "wait_input" /\ UNCHANGED exc
                  ELSE Raise("goto")
    /\ UNCHANGED << input, tableVars, signalVars, idx, done, used, label, submit,
                    status_value, slept, sessionVars, exitCode, runCalled >>

\* page.wait_for_selector(INPUT_SELECTOR): only the timeout is caught.
WaitInput ==
    /\ pc = "wait_input"
    /\ \E r \in {"ok", "timeout", "error"} :
         CASE r = "ok"      -> /\ pc' = "fill"
                               /\ UNCHANGED << tableVars, done, exc >>
           [] r = "timeout" -> MarkFalseAndContinue
           [] r = "error"   -> /\ Raise("wait_for_selector(input)")
                               /\ UNCHANGED << tableVars, done >>
    /\ UNCHANGED << input, signalVars, idx, used, label, nav, submit, status_value, slept,
                    sessionVars, exitCode, runCalled >>

\* What a step of the row that only moves on leaves alone.
RowFrame ==
    UNCHANGED << input, tableVars, signalVars, rowVars, sessionVars,
                 exitCode, runCalled >>

\* page.fill(INPUT_SELECTOR, company): any failure starts the fallback.
Fill ==
    /\ pc = "fill"
    /\ \E ok \in BOOLEAN : pc' = IF ok THEN "enter" ELSE "fb_click"
    /\ UNCHANGED exc
    /\ RowFrame

\* fallback: page.click(INPUT_SELECTOR), else page.focus(INPUT_SELECTOR)
FallbackClick ==
    /\ pc = "fb_click"
    /\ \E ok \in BOOLEAN : pc' = IF ok THEN "select_all" ELSE "fb_focus"
    /\ UNCHANGED exc
    /\ RowFrame

\* page.focus(INPUT_SELECTOR): any failure is passed over.
FallbackFocus ==
    /\ pc = "fb_focus"
    /\ \E ok \in BOOLEAN : pc' = "select_all"
    /\ UNCHANGED exc
    /\ RowFrame

\* page.keyboard.press("Control+A"), else page.keyboard.press("Meta+A")
SelectAll ==
    /\ pc = "select_all"
    /\ \E ok \in BOOLEAN : pc' = IF ok THEN "type" ELSE "select_all_meta"
    /\ UNCHANGED exc
    /\ RowFrame

\* page.keyboard.press("Meta+A"): any failure is passed over.
SelectAllMeta ==
    /\ pc = "select_all_meta"
    /\ \E ok \in BOOLEAN : pc' = "type"
    /\ UNCHANGED exc
    /\ RowFrame

\* page.keyboard.type(company, delay=30): in the except clause of the fill,
\* outside any try.
TypeCompany ==
    /\ pc = "type"
    /\ \E ok \in BOOLEAN :
         IF ok THEN pc' = "enter" /\ UNCHANGED exc
               ELSE Raise("keyboard.type")
    /\ RowFrame

\* time.sleep(0.2); page.keyboard.press("Enter"): any failure is ignored.
PressEnter ==
    /\ pc = "enter"
    /\ \E ok \in BOOLEAN : pc' = "wait_submit"
    /\ UNCHANGED exc
    /\ RowFrame

\* page.wait_for_selector(SUBMIT_SELECTOR): only the timeout is caught.
WaitSubmit ==
    /\ pc = "wait_submit"
    /\ \E r \in {"ok", "timeout", "error"} :
         /\ submit' = CASE r = "ok"      -> "found"
                         [] r = "timeout" -> "absent"
                         [] r = "error"   -> "error"
         /\ CASE r = "ok"      -> pc' = "click_submit" /\ UNCHANGED exc
              [] r = "timeout" -> pc' = "wait_label" /\ UNCHANGED exc
              [] r = "error"   -> Raise("wait_for_selector(submit)")
    /\ UNCHANGED << input, tableVars, signalVars, idx, done, used, label, nav,
                    status_value, slept, sessionVars, exitCode, runCalled >>

\* The click of the submit control with its timeout handled like a missing
\* search box: mark the row False and go to the next row.
ClickSubmit_TimeoutEndsRow ==
    /\ pc = "click_submit"
    /\ \E r \in {"ok", "timeout", "error"} :
         /\ submit' = CASE r = "ok"      -> "clicked"
                        [] r = "timeout" -> "unclickable"
                        [] r = "error"   -> "error"
         /\ CASE r = "ok"      -> /\ pc' = "wait_label"
                                  /\ UNCHANGED << tableVars, done, exc >>
              [] r = "timeout" -> MarkFalseAndContinue
              [] r = "error"   -> /\ Raise("click(submit)")
                                  /\ UNCHANGED << tableVars, done >>
    /\ UNCHANGED << input, signalVars, idx, used, label, nav, status_value,
                    slept, sessionVars, exitCode, runCalled >>

\* page.click(SUBMIT_SELECTOR): only the timeout is caught.
ClickSubmit ==
    /\ pc = "click_submit"
    /\ \E r \in {"ok", "timeout", "error"} :
         /\ submit' = CASE r = "ok"      -> "clicked"
                         [] r = "timeout" -> "unclickable"
                         [] r = "error"   -> "error"
         /\ CASE r = "ok"      -> pc' = "wait_label" /\ UNCHANGED exc
              [] r = "timeout" -> pc' = "wait_label" /\ UNCHANGED exc
              [] r = "error"   -> Raise("click(submit)")
    /\ UNCHANGED << input, tableVars, signalVars, idx, done, used, label, nav,
                    status_value, slept, sessionVars, exitCode, runCalled >>

\* ------------------------------------------------------------- classify
\* if "Prime Award Results" in label_text
Matches(label_text) == Contains(PRIME_AWARD_RESULTS, label_text)

\* The classification without the assignment of "True".
Classify_AlwaysFalse(label_text) == FALSE_STR

\* label_text -> status_value
Classify(label_text) == IF Matches(label_text) THEN TRUE_STR ELSE FALSE_STR

\* status_value = "False"; page.wait_for_selector(RESULT_LABEL_SELECTOR):
\* a timeout goes on to the no-results check, any other exception gives False.
WaitLabel ==
    /\ pc = "wait_label"
    /\ status_value' = FALSE_STR
    /\ \E r \in {"ok", "timeout", "error"} :
         pc' = CASE r = "ok"      -> "read_label"
                 [] r = "timeout" -> "wait_no_results"
                 [] r = "error"   -> "save"
    /\ UNCHANGED << input, tableVars, signalVars, idx, done, used, label, nav, submit, slept,
                    sessionVars, procVars >>

\* label_text = page.locator(...).inner_text(timeout=2000).strip(), or "" when
\* the read fails; then the comparison with the phrase.
ReadLabel ==
    /\ pc = "read_label"
    /\ \/ \E t \in LabelTexts :
            /\ label' = [seen |-> TRUE, readable |-> TRUE, text |-> t]
            /\ status_value' = Classify(Strip(t))
       \/ /\ label' = [seen |-> TRUE, readable |-> FALSE, text |-> EMPTY]
          /\ status_value' = Classify(EMPTY)
    /\ pc' = "save"
    /\ UNCHANGED << input, tableVars, signalVars, idx, done, used, nav, submit, slept,
                    sessionVars, procVars >>

\* page.wait_for_selector(NO_RESULTS_SELECTOR) inside the except clause: found
\* or timed out both give False; nothing catches any other exception.
WaitNoResults ==
    /\ pc = "wait_no_results"
    /\ \E r \in {"ok", "timeout", "error"} :
         CASE r = "ok"      -> /\ status_value' = FALSE_STR
                               /\ pc' = "save"
                               /\ UNCHANGED exc
           [] r = "timeout" -> /\ status_value' = FALSE_STR
                               /\ pc' = "save"
                               /\ UNCHANGED exc
           [] r = "error"   -> /\ Raise("wait_for_selector(no_results)")
                               /\ UNCHANGED status_value
    /\ UNCHANGED << input, tableVars, signalVars, idx, done, used, label, nav, submit,
                    slept, sessionVars, exitCode, runCalled >>

\* The save writing only the current row's status into the file's previous
\* content (the table as loaded when nothing was written yet).
SaveStatus_PatchesCurrentRow ==
    /\ pc = "save"
    /\ df' = SetStatus(df, idx, status_value)
    /\ \E ok \in BOOLEAN :
         IF ok THEN /\ out' = [ (IF out = NoFile
                                   THEN to_csv(EnsureStatus(read_csv(input.file)))
                                   ELSE out)
                                EXCEPT !.rows[idx][STATUS] = status_value ]
                    /\ saved' = "ok"
                    /\ UNCHANGED swallowed
               ELSE /\ out' = out
                    /\ saved' = "failed"
                    /\ swallowed' = swallowed \cup {idx}
    /\ done' = done + 1
    /\ pc' = "sleep"
    /\ UNCHANGED << input, signalVars, idx, used, label, nav, submit,
                    status_value, slept, sessionVars, procVars >>

\* df.loc[idx, "status"] = status_value; try: df.to_csv(...) except: print
SaveStatus ==
    /\ pc = "save"
    /\ df' = SetStatus(df, idx, status_value)
    /\ \E ok \in BOOLEAN :
         IF ok THEN /\ out' = to_csv(df')
                    /\ saved' = "ok"
                    /\ UNCHANGED swallowed
               ELSE /\ out' = out
                    /\ saved' = "failed"
                    /\ swallowed' = swallowed \cup {idx}
    /\ done' = done + 1
    /\ pc' = "sleep"
    /\ UNCHANGED << input, signalVars, idx, used, label, nav, submit, status_value, slept,
                    sessionVars, procVars >>

\* time.sleep(0.6)
Sleep ==
    /\ pc = "sleep"
    /\ slept' = TRUE
    /\ pc' = "loop"
    /\ UNCHANGED << input, tableVars, signalVars, idx, done, used, label, nav, submit,
                    status_value, sessionVars, procVars >>

\* ------------------------------------------------------ the cleanup block
\* The cleanup block with both close() calls in one try: a failure of
\* context.close() skips browser.close().
CloseContext_FailureSkipsBrowser ==
    /\ pc = "close_context"
    /\ closeTried' = closeTried \cup {"context"}
    /\ \E ok \in BOOLEAN :
         IF ok THEN context' = "closed" /\ pc' = "close_browser"
               ELSE /\ context' = context
                    /\ pc' = IF exc = "none" THEN "returned" ELSE "propagated"
    /\ UNCHANGED << input, tableVars, signalVars, rowVars, browser, page,
                    launches, procVars >>

\* finally: try: context.close() except Exception: pass
CloseContext ==
    /\ pc = "close_context"
    /\ closeTried' = closeTried \cup {"context"}
    /\ \E ok \in BOOLEAN : context' = IF ok THEN "closed" ELSE context
    /\ pc' = "close_browser"
    /\ UNCHANGED << input, tableVars, signalVars, rowVars, browser, page,
                    launches, procVars >>

\* The cleanup block starting over whenever browser.close() fails.
CloseBrowser_RetriesUntilClosed ==
    /\ pc = "close_browser"
    /\ closeTried' = closeTried \cup {"browser"}
    /\ \E ok \in BOOLEAN :
         IF ok THEN /\ browser' = "closed"
                    /\ pc' = IF exc = "none" THEN "returned" ELSE "propagated"
               ELSE /\ browser' = browser
                    /\ pc' = "close_context"
    /\ UNCHANGED << input, tableVars, signalVars, rowVars, context, page,
                    launches, procVars >>

\* try: browser.close() except Exception: pass; then run() returns, or the
\* pending exception propagates.
CloseBrowser ==
    /\ pc = "close_browser"
    /\ closeTried' = closeTried \cup {"browser"}
    /\ \E ok \in BOOLEAN : browser' = IF ok THEN "closed" ELSE browser
    /\ pc' = IF exc = "none" THEN "returned" ELSE "propagated"
    /\ UNCHANGED << input, tableVars, signalVars, rowVars, context, page,
                    launches, procVars >>

\* __main__ after run(): normal return, or "Fatal error" and re-raise.
MainExit ==
    /\ pc \in {"returned", "propagated"}
    /\ exitCode' = IF pc = "returned" THEN 0 ELSE 1
    /\ pc' = "exit"
    /\ UNCHANGED << input, tableVars, signalVars, rowVars, sessionVars, exc,
                    runCalled >>

\* ---------------------------------------------------------- specification
Next ==
    \/ Main
    \/ Load
    \/ RegisterSignals
    \/ SignalHandler
    \/ Launch
    \/ NewContext
    \/ NewPage
    \/ LoopTop
    \/ CheckCompany
    \/ Goto
    \/ GotoFallback
    \/ WaitInput
    \/ Fill
    \/ FallbackClick
    \/ FallbackFocus
    \/ SelectAll
    \/ SelectAllMeta
    \/ TypeCompany
    \/ PressEnter
    \/ WaitSubmit
    \/ ClickSubmit
    \/ WaitLabel
    \/ ReadLabel
    \/ WaitNoResults
    \/ SaveStatus
    \/ Sleep
    \/ CloseContext
    \/ CloseBrowser
    \/ MainExit

Spec == Init /\ [][Next]_vars

\* The steps of the program itself: everything but the arrival of a signal.
Program ==
    \/ Main \/ Load \/ RegisterSignals \/ Launch \/ NewContext \/ NewPage
    \/ LoopTop \/ CheckCompany \/ Goto \/ GotoFallback \/ WaitInput \/ Fill
    \/ FallbackClick \/ FallbackFocus \/ SelectAll \/ SelectAllMeta
    \/ TypeCompany \/ PressEnter \/ WaitSubmit \/ ClickSubmit \/ WaitLabel
    \/ ReadLabel \/ WaitNoResults \/ SaveStatus \/ Sleep \/ CloseContext
    \/ CloseBrowser \/ MainExit

\* The program keeps running: every call it makes returns or fails within
\* its timeout, so its next step is eventually taken.
FairSpec == Init /\ [][Next]_vars /\ WF_vars(Program)

\* ------------------------------------------------------- shared notions
\* A row boundary: the loop is about to fetch the next row after at least one
\* row finished at one of its save points.
RowBoundary == pc = "loop" /\ done >= 1

StatusSet == {StrCell(TRUE_STR), StrCell(FALSE_STR)}

\* The status text of input row i as the output shows it when the row was
\* not processed: the loaded cell written back, blank without a status column.
LoadedStatus(i) ==
    IF STATUS \in input.file.columns
      THEN WriteCell(ReadCell(input.file.rows[i][STATUS]))
      ELSE EMPTY

\* The run was aborted by a failure of a browser interaction of a row.
BrowserFailures ==
    { "goto", "wait_for_selector(input)", "keyboard.type",
      "wait_for_selector(submit)", "click(submit)",
      "wait_for_selector(no_results)" }

C2_Step ==
    /\ (interrupted /\ pc \notin RowPcs) => pc' \notin RowPcs
    /\ (pc \in RowPcs /\ pc' \notin RowPcs) =>
          \/ /\ pc' = "loop"
             /\ done' = idx
             /\ df'.rows[idx][STATUS] \in StatusSet
             /\ saved' = "ok" => out' = to_csv(df')
          \/ /\ pc' = "close_context"
             /\ exc' # "none"
    /\ \A i \in 1..done :
          /\ df'.rows[i] = df.rows[i]
          /\ (out # NoFile /\ out.rows[i][STATUS] = WriteCell(df.rows[i][STATUS]))
                => out'.rows[i][STATUS] = out.rows[i][STATUS]

C3_AsStated == exc \notin BrowserFailures

\* ------------------------------------------------------------------- C4
\* C4 (as stated): for a row whose company field is empty or whitespace-only
\* in the CSV, the browser is not used.
C4_AsStated ==
    (pc \in RowPcs /\ Strip(input.file.rows[idx][COLUMN]) = EMPTY) => ~used

\* ------------------------------------------------------------------- C5
\* C5: a row whose results label was read as exactly 'Prime Award Results'
\* has status 'True' in the table once it is saved, and in the file when the
\* write succeeded.
C5_ExactMatchTrue ==
    (done = idx /\ idx >= 1 /\ label.seen /\ label.readable
        /\ label.text = PRIME_AWARD_RESULTS) =>
        /\ df.rows[idx][STATUS] = StrCell(TRUE_STR)
        /\ saved = "ok" => out.rows[idx][STATUS] = TRUE_STR

C5_Witness ==
    /\ pc = "sleep"
    /\ label.seen /\ label.readable
    /\ label.text = PRIME_AWARD_RESULTS
    /\ saved = "ok"
    /\ out.rows[idx][STATUS] = TRUE_STR

\* ------------------------------------------------------------------- C6
\* C6 (as stated): a row whose results label appeared with text other than
\* exactly 'Prime Award Results' (surrounding whitespace aside), or with
\* unreadable text, has status 'False'.
C6_AsStated ==
    (done = idx /\ idx >= 1 /\ label.seen
        /\ (~label.readable \/ Strip(label.text) # PRIME_AWARD_RESULTS)) =>
        df.rows[idx][STATUS] = StrCell(FALSE_STR)

\* ------------------------------------------------------------------- C7
\* C7 (as stated): every file written to the output path has the rows of the
\* input in the same number and order, with every value of every non-status
\* column unchanged.
C7_AsStated ==
    out # NoFile =>
        /\ Len(out.rows) = Len(input.file.rows)
        /\ \A i \in 1..Len(out.rows) :
              \A c \in input.file.columns \ {STATUS} :
                  out.rows[i][c] = input.file.rows[i][c]

C9_FatalBeforeWork ==
    /\ ~input.exists =>
          /\ ~runCalled
          /\ pc = "exit" => exitCode = 1
    /\ (input.exists /\ COLUMN \notin input.file.columns
            /\ pc \notin {"main", "load"}) =>
          /\ exc = "RuntimeError"
          /\ ~handlers
          /\ browser = "none" /\ launches = 0
          /\ idx = 0 /\ done = 0
          /\ out = NoFile
          /\ pc = "exit" => exitCode = 1

C9_Witness ==
    /\ pc = "exit"
    /\ input.exists
    /\ COLUMN \notin input.file.columns
    /\ exc = "RuntimeError"
    /\ exitCode = 1

\* ------------------------------------------------------------------ C10
\* C10 (as stated): a failed write of the table never stops the run.
C10_AsStated == exc # "to_csv"

\* The status cell of row i as loaded: the input's cell, or the empty string
\* of the added column.
LoadedCell(i) ==
    IF STATUS \in input.file.columns
      THEN ReadCell(input.file.rows[i][STATUS])
      ELSE StrCell(EMPTY)

\* Row i had its status assigned: it reached a save point, or it is the row
\* whose early write just failed.
Assigned(i) == i <= done \/ (exc = "to_csv" /\ i = idx)

\* The positions a row is at once its submit step is over.
ClassifyPcs == { "wait_label", "read_label", "wait_no_results", "save", "sleep" }

\* ------------------------------------------------------------------ C11
\* C11: a row makes at most two navigation attempts; the fallback load is
\* made if and only if the first load timed out; after a first load that
\* failed otherwise the row is over: its status is 'False', the write of the
\* table was made (the file equals the table when it succeeded), and the row
\* is at no further step.
C11_Navigation ==
    /\ Len(nav) <= 2
    /\ Len(nav) = 2 => nav[1] = "timeout"
    /\ (Len(nav) = 1 /\ nav[1] = "timeout") => pc = "goto_fallback"
    /\ (Len(nav) >= 1 /\ nav[1] = "error") =>
          /\ Len(nav) = 1
          /\ pc \notin RowPcs
          /\ ~label.seen /\ submit = "none" /\ status_value = EMPTY
          /\ saved \in {"ok", "failed"}
          /\ df.rows[IF saved = "failed" THEN done + 1 ELSE done][STATUS]
                = StrCell(FALSE_STR)
          /\ saved = "ok" => out = to_csv(df)

\* A first load failed with a non-timeout error; the row was marked and
\* saved and the loop is at the next row boundary.
C11_Witness ==
    /\ nav = <<"error">>
    /\ pc = "loop"
    /\ saved = "ok"
    /\ out.rows[done][STATUS] = FALSE_STR

\* ------------------------------------------------------------------ C12
\* C12 (as stated): no failure of the fill fallback chain, the final typing
\* of the company name included, gets out of the row loop.
C12_AsStated == exc # "keyboard.type"

\* ------------------------------------------------------------------ C13
\* C13 (as stated): an unexpected exception while waiting for the no-results
\* message does not get out of the row loop (the row gets 'False').
C13_AsStated == exc # "wait_for_selector(no_results)"

\* ------------------------------------------------------------------ C14
\* C14: a submit control that appears is clicked; when it does not appear,
\* or is clicked, or cannot be clicked within the click timeout, the row goes
\* on to the classify step, with no exception from the submit step and with
\* the row's status cell still as loaded when the classify step starts.
C14_Submit ==
    /\ submit = "found" => pc = "click_submit"
    /\ submit \in {"absent", "clicked", "unclickable"} =>
          /\ pc = "wait_label" \/ status_value # EMPTY
          /\ exc \notin {"wait_for_selector(submit)", "click(submit)"}
          /\ pc = "wait_label" =>
                /\ done = idx - 1
                /\ df.rows[idx][STATUS] = LoadedCell(idx)

\* The submit control appeared but could not be clicked, and the row is at
\* the start of its classify step.
C14_Witness ==
    /\ submit = "unclickable"
    /\ pc = "wait_label"
    /\ exc = "none"

\* ------------------------------------------------------------------ C15
\* C15 (as stated): at every row boundary the delay step has run since the
\* row was started.
C15_AsStated == RowBoundary => slept

\* ------------------------------------------------------------------ C16
\* C16 (as stated): once the table is loaded, every status cell of the table
\* and of the output file is 'True', 'False' or empty.
C16_AsStated ==
    /\ df # NoTable =>
          \A i \in 1..NRows :
              WriteCell(df.rows[i][STATUS]) \in {TRUE_STR, FALSE_STR, EMPTY}
    /\ out # NoFile =>
          \A i \in 1..Len(out.rows) :
              out.rows[i][STATUS] \in {TRUE_STR, FALSE_STR, EMPTY}

\* C16 (amended): once the table is loaded it has a status column; the
\* status cell of a row that was assigned is 'True' or 'False', and that of
\* any other row is the cell as loaded (empty when the column was added);
\* every status cell of the output file is 'True', 'False' or the loaded
\* cell written back.
C16_StatusDomain ==
    /\ df # NoTable =>
          /\ STATUS \in df.columns
          /\ \A i \in 1..NRows :
                IF Assigned(i)
                  THEN df.rows[i][STATUS] \in StatusSet
                  ELSE df.rows[i][STATUS] = LoadedCell(i)
    /\ out # NoFile =>
          /\ STATUS \in out.columns
          /\ \A i \in 1..Len(out.rows) :
                out.rows[i][STATUS] \in {TRUE_STR, FALSE_STR, LoadedStatus(i)}

\* Row 1 was assigned 'False' and written; row 2 still carries the input's
\* own status text.
C16_Witness ==
    /\ df # NoTable
    /\ NRows = 2
    /\ done = 1
    /\ df.rows[1][STATUS] = StrCell(FALSE_STR)
    /\ df.rows[2][STATUS] = StrCell(OLD_TEXT)
    /\ out # NoFile
    /\ out.rows[2][STATUS] = OLD_TEXT

\* ------------------------------------------------------------------ C17
\* C17: the loop variable only moves to the next row; a step that finishes a
\* row finishes row idx, the row after the last finished one, and leaves it
\* with status 'True' or 'False' whatever it was; the table changes only by
\* such an assignment to row idx, made while that row is not yet finished;
\* and a run that returns without interrupt has finished every row, each
\* with status 'True' or 'False'.
C17_Step ==
    /\ idx' \in {idx, idx + 1}
    /\ done' # done =>
          /\ done' = done + 1
          /\ done' = idx
          /\ idx' = idx
          /\ df'.rows[idx][STATUS] \in StatusSet
    /\ (df # NoTable /\ df' # df) =>
          /\ done < idx
          /\ \E v \in {TRUE_STR, FALSE_STR} : df' = SetStatus(df, idx, v)
          /\ done' = idx \/ exc' = "to_csv"

C17_Final ==
    (pc = "returned" /\ ~interrupted) =>
        /\ done = NRows
        /\ idx = NRows
        /\ \A i \in 1..NRows : df.rows[i][STATUS] \in StatusSet

C17_NoResume == [][C17_Step]_vars /\ []C17_Final

\* A run over two rows returned without interrupt; row 2 came with status
\* 'True' in the input and ends with 'False'.
C17_Witness ==
    /\ pc = "returned"
    /\ ~interrupted
    /\ NRows = 2
    /\ STATUS \in input.file.columns
    /\ input.file.rows[2][STATUS] = TRUE_STR
    /\ df.rows[2][STATUS] = StrCell(FALSE_STR)

\* ------------------------------------------------------------------ C18
\* C18: whenever the latest write succeeded, the output file is the whole
\* in-memory table; in particular it shows the 'True' or 'False' of every
\* earlier row whose own write failed and was passed over.
C18_WholeTable ==
    saved = "ok" =>
        /\ Len(out.rows) = NRows
        /\ \A i \in 1..NRows :
              \A c \in df.columns : out.rows[i][c] = WriteCell(df.rows[i][c])
        /\ \A i \in swallowed :
              out.rows[i][STATUS] \in {TRUE_STR, FALSE_STR}

\* Row 1's write failed; row 2's write succeeded and the file shows row 1's
\* 'True', which is not what the input had there.
C18_Witness ==
    /\ saved = "ok"
    /\ 1 \in swallowed
    /\ done = 2
    /\ out.rows[1][STATUS] = TRUE_STR
    /\ LoadedStatus(1) # TRUE_STR

\* ------------------------------------------------------------------ C19
\* C19: every run ends; when it ends with the session acquired both close()
\* calls were made; a run that ends without exception and without interrupt
\* has finished every row, and one that ends without exception with the
\* interrupt flag set has finished every row it started.
C19_Ended ==
    /\ pc = "exit"
    /\ page => closeTried = {"context", "browser"}
    /\ (runCalled /\ exc = "none" /\ ~interrupted) => done = NRows
    /\ (runCalled /\ exc = "none" /\ interrupted) => done \in {idx - 1, idx}

C19_Terminates == <>C19_Ended

\* The flag was set at a row boundary: the run ended normally with one of
\* two rows finished and both close() calls made.
C19_Witness ==
    /\ pc = "exit"
    /\ exc = "none"
    /\ interrupted
    /\ intRow = 0
    /\ NRows = 2
    /\ done = 1
    /\ closeTried = {"context", "browser"}

====
